---- MODULE Spec2Model ----
(***************************************************************************)
(* Custom Field Checker (src/Custom_Field_Checker.py).                     *)
(*                                                                         *)
(* One run of a menu action: process_student_ids (action 1) or             *)
(* process_tutor_names (action 2).  A Python str is a sequence of          *)
(* one-character strings; a csv row is a tuple of such sequences, so the   *)
(* code's student[0] is student[1] here.  Positions inside a str           *)
(* (location, slice limits) are 0-based as in the code.                    *)
(***************************************************************************)
EXTENDS Integers, Sequences, FiniteSets, TLC

VARIABLES
    action,            \* main(): the menu selection, 1 or 2
    fields_file,       \* lines of the Student Profile Fields csv, header first
    tutors_file,       \* lines of tutors.csv, header first
    st_file,           \* lines of studentstutors.csv, header first
    pc,                \* position inside process_student_ids / process_tutor_names
    student_data,      \* what load_data returned: <<read_data, flag, warnings>>
    validated,         \* what check_fields_data returned to load_data: <<flag, warnings>>
    error_log,         \* calls received by ft.process_error_log
    tutors,            \* process_tutor_names: extract_tutors(tutor_data)
    st_data,           \* process_tutor_names: extract_items(st_data)
    i,                 \* find_student_ids / find_tutors: index of the next record
    j,                 \* find_tutors: roster position where the last scan stopped
    tutor_found,       \* find_tutors: flag of the last scan
    missing_students,  \* find_student_ids: the list being built
    missing_tutors,    \* find_tutors: the list being built
    saved,             \* save_students: <<headings, rows>> written, <<>> before
    warning_log        \* ft.process_warning_log: <<warnings, flag>> received, <<>> before

vars == <<action, fields_file, tutors_file, st_file, pc, student_data, validated,
          error_log, tutors, st_data, i, j, tutor_found, missing_students,
          missing_tutors, saved, warning_log>>

(***************************************************************************)
(* Bounds of the model.                                                    *)
(***************************************************************************)
MaxRows == 2          \* data lines in the Student Profile Fields file

(***************************************************************************)
(* Python str operations.                                                  *)
(***************************************************************************)
Min(a, b) == IF a <= b THEN a ELSE b

\* variant: a slice that runs past the end of s yields nothing
Slice_NoClamp(s, lo, hi) == IF hi > Len(s) THEN <<>> ELSE SubSeq(s, lo + 1, hi)

\* s[lo:hi] for 0 <= lo, 0 <= hi: the limits are clamped to len(s), never an error
Slice(s, lo, hi) == SubSeq(s, lo + 1, Min(hi, Len(s)))

\* whether sub occurs in s at 0-based position p
OccursAt(s, sub, p) == /\ p >= 0
                       /\ p + Len(sub) <= Len(s)
                       /\ SubSeq(s, p + 1, p + Len(sub)) = sub

\* sub in s
StrIn(sub, s) == \E p \in 0..Len(s) : OccursAt(s, sub, p)

RECURSIVE FindFrom(_, _, _)
FindFrom(s, sub, p) ==
    IF p + Len(sub) > Len(s) THEN -1
    ELSE IF OccursAt(s, sub, p) THEN p
    ELSE FindFrom(s, sub, p + 1)

\* s.find(sub): the lowest position where sub occurs, -1 when it does not
StrFind(s, sub) == FindFrom(s, sub, 0)

(***************************************************************************)
(* check_fields_data                                                       *)
(***************************************************************************)
FieldsReportName == <<"Student Profile Fields Report">>
FieldsWarningsTitle == <<"Student Profile Fields Report Warnings:">>

FirstNameMissing(student) == <<"First Name is missing for student with Student ID", student[1]>>
LastNameMissing(student) == <<"Last Name is missing for student with Student ID", student[1]>>
DataMissing(student) == <<"Data is missing for student with Student ID", student[1]>>

\* the warnings one record appends (lines 43-48)
RecordWarnings(student) ==
    (IF student[2] = <<>> THEN <<FirstNameMissing(student)>> ELSE <<>>)
    \o (IF student[3] = <<>> THEN <<LastNameMissing(student)>> ELSE <<>>)

\* variant: the error is raised on the last name column
RecordErrors_LastName(student) ==
    IF student[3] = <<>>
    THEN <<<<"Data is missing for student with Student ID", student[1]>>>>
    ELSE <<>>

\* the errors one record appends (lines 49-51)
RecordErrors(student) ==
    IF student[4] = <<>> THEN <<DataMissing(student)>> ELSE <<>>

RECURSIVE FieldsWarnings(_)
FieldsWarnings(report_data) ==
    IF report_data = <<>> THEN <<>>
    ELSE RecordWarnings(Head(report_data)) \o FieldsWarnings(Tail(report_data))

RECURSIVE FieldsErrors(_)
FieldsErrors(report_data) ==
    IF report_data = <<>> THEN <<>>
    ELSE RecordErrors(Head(report_data)) \o FieldsErrors(Tail(report_data))

\* the value check_fields_data returns: <<flag, warnings>>
check_fields_data(report_data) ==
    LET warnings == <<FieldsWarningsTitle>> \o FieldsWarnings(report_data)
    IN  IF Len(warnings) > 1 THEN <<TRUE, warnings>> ELSE <<FALSE, warnings>>

\* the calls check_fields_data makes to ft.process_error_log
FieldsErrorCalls(report_data) ==
    LET errors == FieldsErrors(report_data)
    IN  IF Len(errors) > 0 THEN <<<<errors, FieldsReportName>>>> ELSE <<>>

(***************************************************************************)
(* load_data, extract_items, extract_tutors                                *)
(***************************************************************************)
NonEmptyFirst(row) == row[1] # <<>>

\* the rows load_data keeps: the header line is skipped, rows with an empty
\* first column are dropped
ReadRows(file) == IF file = <<>> THEN <<>> ELSE SelectSeq(Tail(file), NonEmptyFirst)

\* the value load_data returns; its own warnings list is never appended to
load_data(file, source) ==
    LET read_data == ReadRows(file)
        warnings == <<>>
    IN  IF Len(warnings) > 0 THEN <<read_data, TRUE, warnings>>
        ELSE <<read_data, FALSE, warnings>>

extract_items(data) == data[1]

extract_tutors(tutor_data) == [k \in 1..Len(tutor_data[1]) |-> tutor_data[1][k][1]]

(***************************************************************************)
(* find_student_ids                                                        *)
(***************************************************************************)
identifier == <<"F", "i", "t", "N", "Z">>

TokenLen == 9

\* variant: the 9 characters are taken after the marker
EmbeddedId_AfterMarker(data) ==
    LET location == StrFind(data, identifier) + Len(identifier)
    IN  Slice(data, location, location + TokenLen)

\* the characters compared with student[0] (lines 175-177)
EmbeddedId(data) ==
    LET location == StrFind(data, identifier)
    IN  Slice(data, location, location + TokenLen)

\* variant: the comparison of line 180 is inverted
IdMissing_Inverted(student) ==
    IF StrIn(identifier, student[4])
    THEN EmbeddedId(student[4]) = student[1]
    ELSE TRUE

\* whether one record is appended to missing_students (lines 172-190)
IdMissing(student) ==
    IF StrIn(identifier, student[4])
    THEN EmbeddedId(student[4]) # student[1]
    ELSE TRUE

\* what find_student_ids appends for a flagged record
IdEntry(student) == <<student[1], student[2], student[3]>>

\* variant: the entry is inserted at the front of the list
IdStep_Prepend(student, missing) ==
    IF IdMissing(student) THEN <<IdEntry(student)>> \o missing ELSE missing

\* one iteration of the while loop: the list after the record is processed
IdStep(student, missing) ==
    IF IdMissing(student) THEN Append(missing, IdEntry(student)) ELSE missing

RECURSIVE IdLoop(_, _, _)
IdLoop(rows, k, missing) ==
    IF k < Len(rows) THEN IdLoop(rows, k + 1, IdStep(rows[k + 1], missing))
    ELSE missing

find_student_ids(data) == IdLoop(data[1], 0, <<>>)

(***************************************************************************)
(* find_tutors                                                             *)
(***************************************************************************)
RECURSIVE ScanFrom(_, _, _)
\* the inner while loop (lines 221-247): the roster position it stops at,
\* len(tutor_names) when no name is in the data field
ScanFrom(tutor_names, data, k) ==
    IF k < Len(tutor_names) /\ ~StrIn(tutor_names[k + 1], data)
    THEN ScanFrom(tutor_names, data, k + 1)
    ELSE k

\* variant: the scan goes on after a match, so the last listed match wins
ScanTutors_Last(tutor_names, data) ==
    LET found == {k \in 0..(Len(tutor_names) - 1) : StrIn(tutor_names[k + 1], data)}
    IN  IF found = {} THEN Len(tutor_names)
        ELSE CHOOSE k \in found : \A m \in found : m <= k

ScanTutors(tutor_names, data) == ScanFrom(tutor_names, data, 0)

RECURSIVE FirstItem_NoBreak(_, _)
\* variant: the loop has no break, so the last row with the id wins
FirstItem_NoBreak(pairings, id) ==
    IF pairings = <<>> THEN <<>>
    ELSE LET rest == FirstItem_NoBreak(Tail(pairings), id)
         IN  IF rest # <<>> THEN rest
             ELSE IF Head(pairings)[1] = id THEN <<Head(pairings)>>
             ELSE <<>>

RECURSIVE FirstItem(_, _)
\* for item in st_data: if item[0] == id: ... break -- the row the loop stops
\* at, as a list of one row, or the empty list when it runs to the end
FirstItem(pairings, id) ==
    IF pairings = <<>> THEN <<>>
    ELSE IF Head(pairings)[1] = id THEN <<Head(pairings)>>
    ELSE FirstItem(Tail(pairings), id)

TutorEntry(student, tutor) == <<student[1], student[2], student[3], tutor>>

\* variant: the discrepancy carries the roster name that was found
FoundEntries_RosterName(student, name, pairings) ==
    LET item == FirstItem(pairings, student[1])
    IN  IF item # <<>> /\ name # item[1][5]
        THEN <<TutorEntry(student, name)>>
        ELSE <<>>

\* variant: a student without a pairing row is flagged with an empty tutor
FoundEntries_FlagUnpaired(student, name, pairings) ==
    LET item == FirstItem(pairings, student[1])
    IN  IF item = <<>> THEN <<TutorEntry(student, <<>>)>>
        ELSE IF name # item[1][5] THEN <<TutorEntry(student, item[1][5])>>
        ELSE <<>>

\* a roster name was found (lines 226-245): what is appended
FoundEntries(student, name, pairings) ==
    LET item == FirstItem(pairings, student[1])
    IN  IF item # <<>> /\ name # item[1][5]
        THEN <<TutorEntry(student, item[1][5])>>
        ELSE <<>>

\* no roster name was found (lines 248-260): what is appended
NotFoundEntries(student, pairings) ==
    LET item == FirstItem(pairings, student[1])
        tutor == IF item # <<>> THEN item[1][5] ELSE <<>>
    IN  <<TutorEntry(student, tutor)>>

\* one iteration of the outer while loop: the list after the record
TutorStep(student, tutor_names, pairings, missing) ==
    LET k == ScanTutors(tutor_names, student[4])
    IN  IF k < Len(tutor_names)
        THEN missing \o FoundEntries(student, tutor_names[k + 1], pairings)
        ELSE missing \o NotFoundEntries(student, pairings)

RECURSIVE TutorLoop(_, _, _, _, _)
TutorLoop(rows, tutor_names, pairings, k, missing) ==
    IF k < Len(rows)
    THEN TutorLoop(rows, tutor_names, pairings, k + 1,
                   TutorStep(rows[k + 1], tutor_names, pairings, missing))
    ELSE missing

find_tutors(data, tutor_names, pairings) ==
    TutorLoop(data[1], tutor_names, pairings, 0, <<>>)

(***************************************************************************)
(* Input files                                                             *)
(***************************************************************************)
Empty == <<>>
Ann == <<"A", "n", "n">>
Lee == <<"L", "e", "e">>
Smith == <<"S", "m", "i", "t", "h">>
Jones == <<"J", "o", "n", "e", "s">>
Course == <<"C", "1">>
S1 == <<"S", "1">>
S2 == <<"S", "2">>
FitNZ1 == identifier \o <<"1">>
FitNZ0001 == identifier \o <<"0", "0", "0", "1">>

\* sequences over S of length at most n
SeqsUpTo(S, n) == UNION {[1..m -> S] : m \in 0..n}

\* sequences over S without repetition
Arrangements(S) ==
    {q \in SeqsUpTo(S, Cardinality(S)) : \A a, b \in 1..Len(q) : a # b => q[a] # q[b]}

FieldsHeader == <<<<"i", "d">>, <<"f">>, <<"l">>, <<"d">>>>

NamePairs == {<<Ann, Lee>>, <<Empty, Empty>>}

\* student ids of the identifier check: without the marker, with the marker
\* and shorter than the token, with the marker and of the token's length
IdCheckIds == {S1, FitNZ1, FitNZ0001}

IdCheckData ==
    { Empty,
      <<"F", "i", "t", "N">>,                   \* no marker
      FitNZ0001,                                \* the token alone
      FitNZ1,                                   \* marker, field ends early
      identifier \o S1,                         \* marker followed by an id
      <<"F", "i", "t">> \o FitNZ0001 \o <<"2">> \* marker inside other text
    }

DroppedFieldsRow == <<Empty, Ann, Lee, FitNZ0001>>

IdCheckRows ==
    {<<id, n[1], n[2], d>> : id \in IdCheckIds, n \in NamePairs, d \in IdCheckData}
    \cup {DroppedFieldsRow}

TutorCheckIds == {S1, S2}

TutorCheckData == {Empty, Smith, Jones \o <<" ">> \o Smith}

TutorCheckRows ==
    {<<id, Ann, Lee, d>> : id \in TutorCheckIds, d \in TutorCheckData}
    \cup {DroppedFieldsRow}

TutorsHeader == <<<<"t">>>>

RosterFiles == {<<TutorsHeader>> \o [k \in 1..Len(q) |-> <<q[k]>>] :
                   q \in Arrangements({Smith, Jones, Empty})}

PairingsHeader == <<<<"i", "d">>, <<"f">>, <<"l">>, <<"c">>, <<"t">>>>

PairingRows == {<<S1, Ann, Lee, Course, Smith>>,
                <<S1, Ann, Lee, Course, Jones>>,
                <<S2, Ann, Lee, Course, Smith>>}

PairingFiles == {<<PairingsHeader>> \o q : q \in Arrangements(PairingRows)}

(***************************************************************************)
(* The run                                                                 *)
(***************************************************************************)
Start ==
    /\ pc = "load_fields"
    /\ student_data = <<>>
    /\ validated = <<>>
    /\ error_log = <<>>
    /\ tutors = <<>>
    /\ st_data = <<>>
    /\ i = 0
    /\ j = 0
    /\ tutor_found = FALSE
    /\ missing_students = <<>>
    /\ missing_tutors = <<>>
    /\ saved = <<>>
    /\ warning_log = <<>>

\* main() with selection 1
InitIds ==
    /\ action = 1
    /\ fields_file \in {<<FieldsHeader>> \o q : q \in SeqsUpTo(IdCheckRows, MaxRows)}
    /\ tutors_file = <<>>
    /\ st_file = <<>>
    /\ Start

\* main() with selection 2
InitTutors ==
    /\ action = 2
    /\ fields_file \in {<<FieldsHeader>> \o q : q \in SeqsUpTo(TutorCheckRows, MaxRows)}
    /\ tutors_file \in RosterFiles
    /\ st_file \in PairingFiles
    /\ Start

\* student_data = load_data(f_name, 'fields_data'), check_fields_data included
LoadFields ==
    /\ pc = "load_fields"
    /\ student_data' = load_data(fields_file, "fields_data")
    /\ validated' = check_fields_data(ReadRows(fields_file))
    /\ error_log' = error_log \o FieldsErrorCalls(ReadRows(fields_file))
    /\ pc' = IF action = 1 THEN "find_student_ids" ELSE "load_tutors"
    /\ UNCHANGED <<action, fields_file, tutors_file, st_file, tutors, st_data, i, j,
                   tutor_found, missing_students, missing_tutors, saved, warning_log>>

\* tutor_data = load_data('tutors', 'tutor_names'); tutors = extract_tutors(tutor_data)
LoadTutors ==
    /\ pc = "load_tutors"
    /\ tutors' = extract_tutors(load_data(tutors_file, "tutor_names"))
    /\ pc' = "load_st"
    /\ UNCHANGED <<action, fields_file, tutors_file, st_file, student_data, validated,
                   error_log, st_data, i, j, tutor_found, missing_students,
                   missing_tutors, saved, warning_log>>

\* st_data = load_data('studentstutors', 'studentstutors.csv'); extract_items(st_data)
LoadPairings ==
    /\ pc = "load_st"
    /\ st_data' = extract_items(load_data(st_file, "studentstutors.csv"))
    /\ pc' = "find_tutors"
    /\ UNCHANGED <<action, fields_file, tutors_file, st_file, student_data, validated,
                   error_log, tutors, i, j, tutor_found, missing_students,
                   missing_tutors, saved, warning_log>>

\* find_student_ids: one iteration of its while loop
FindStudentIdsStep ==
    /\ pc = "find_student_ids"
    /\ i < Len(student_data[1])
    /\ missing_students' = IdStep(student_data[1][i + 1], missing_students)
    /\ i' = i + 1
    /\ UNCHANGED <<action, fields_file, tutors_file, st_file, pc, student_data,
                   validated, error_log, tutors, st_data, j, tutor_found,
                   missing_tutors, saved, warning_log>>

\* find_tutors: one iteration of its outer while loop
FindTutorsStep ==
    /\ pc = "find_tutors"
    /\ i < Len(student_data[1])
    /\ j' = ScanTutors(tutors, student_data[1][i + 1][4])
    /\ tutor_found' = (j' < Len(tutors))
    /\ missing_tutors' = TutorStep(student_data[1][i + 1], tutors, st_data, missing_tutors)
    /\ i' = i + 1
    /\ UNCHANGED <<action, fields_file, tutors_file, st_file, pc, student_data,
                   validated, error_log, tutors, st_data, missing_students, saved,
                   warning_log>>

IdHeadings == <<"Student ID", "First Name", "Last Name">>
TutorHeadings == <<"Student ID", "First Name", "Last Name", "Tutor">>

\* the loop has ended: the list is returned and handed to save_students
SaveStudents ==
    /\ pc \in {"find_student_ids", "find_tutors"}
    /\ i >= Len(student_data[1])
    /\ saved' = IF action = 1 THEN <<IdHeadings, missing_students>>
                ELSE <<TutorHeadings, missing_tutors>>
    /\ pc' = "log"
    /\ UNCHANGED <<action, fields_file, tutors_file, st_file, student_data, validated,
                   error_log, tutors, st_data, i, j, tutor_found, missing_students,
                   missing_tutors, warning_log>>

IdsWarningsTitle == <<"Processing Student IDs data Warnings:">>
TutorsWarningsTitle == <<"Processing Tutor Names data Warnings:">>

\* the driver's own warnings list and flag (lines 353-354, 375-376)
DriverWarnings == IF action = 1 THEN <<IdsWarningsTitle>> ELSE <<TutorsWarningsTitle>>
DriverWarningsToProcess == FALSE

\* ft.process_warning_log(warnings, warnings_to_process)
LogWarnings ==
    /\ pc = "log"
    /\ warning_log' = <<DriverWarnings, DriverWarningsToProcess>>
    /\ pc' = "done"
    /\ UNCHANGED <<action, fields_file, tutors_file, st_file, student_data, validated,
                   error_log, tutors, st_data, i, j, tutor_found, missing_students,
                   missing_tutors, saved>>

NextIds == LoadFields \/ FindStudentIdsStep \/ SaveStudents \/ LogWarnings

NextTutors ==
    LoadFields \/ LoadTutors \/ LoadPairings \/ FindTutorsStep \/ SaveStudents \/ LogWarnings

Init == InitIds \/ InitTutors

Next ==
    \/ LoadFields
    \/ LoadTutors
    \/ LoadPairings
    \/ FindStudentIdsStep
    \/ FindTutorsStep
    \/ SaveStudents
    \/ LogWarnings

SpecIds == InitIds /\ [][NextIds]_vars

SpecTutors == InitTutors /\ [][NextTutors]_vars

Spec == Init /\ [][Next]_vars

(***************************************************************************)
(* Vocabulary of the properties, stated on positions 1..Len of a field     *)
(***************************************************************************)
Marker == <<"F", "i", "t", "N", "Z">>

\* text occurs in field at position p (1-based)
At(field, text, p) ==
    /\ p + Len(text) - 1 <= Len(field)
    /\ \A k \in 1..Len(text) : field[p + k - 1] = text[k]

Contains(field, text) == \E p \in 1..Len(field) : At(field, text, p)

FirstPos(field, text) ==
    CHOOSE p \in 1..Len(field) : At(field, text, p) /\ \A q \in 1..(p - 1) : ~At(field, text, q)

\* the characters of field from position p on, at most n of them
UpTo(field, p, n) ==
    [k \in 1..(IF Len(field) - p + 1 < n THEN Len(field) - p + 1 ELSE n) |-> field[p + k - 1]]

\* the records load_data kept, and the one a loop iteration is about to process
Records == student_data[1]
InIdLoop == pc = "find_student_ids" /\ i < Len(Records)
InTutorLoop == pc = "find_tutors" /\ i < Len(Records)
Current == Records[i + 1]
IdIteration == InIdLoop /\ i' = i + 1
TutorIteration == InTutorLoop /\ i' = i + 1

\* the last entry of a list is e, and the rest is the list before
Appended(before, after, e) == after = before \o <<e>>

(***************************************************************************)
(* C1                                                                      *)
(***************************************************************************)
\* the marker's first occurrence in the field is immediately followed by id
MarkerThenId(field, id) ==
    /\ Contains(field, Marker)
    /\ At(field, id, FirstPos(field, Marker) + Len(Marker))

\* the 9 characters starting at the marker's first occurrence are id
TokenIsId(field, id) ==
    /\ Contains(field, Marker)
    /\ Len(id) = 9
    /\ At(field, id, FirstPos(field, Marker))

\* C1 as stated: a record whose dataField holds the marker immediately followed
\* by its studentId is not put in the missing-identifier output.
C1_MarkerThenIdIsClean ==
    [][(IdIteration /\ MarkerThenId(Current[4], Current[1]))
          => missing_students' = missing_students]_vars

\* C1 amended: a record whose dataField holds, from the first occurrence of the
\* marker, 9 characters that are exactly its studentId (the marker being the
\* studentId's own first five characters) is not put in the output.
C1_TokenIsIdIsClean ==
    [][(IdIteration /\ TokenIsId(Current[4], Current[1]))
          => missing_students' = missing_students]_vars

C1_Witness ==
    /\ pc = "find_student_ids"
    /\ i = 2
    /\ TokenIsId(Records[2][4], Records[2][1])
    /\ FirstPos(Records[2][4], Marker) > 1
    /\ ~Contains(Records[1][4], Marker)
    /\ Len(missing_students) = 1

(***************************************************************************)
(* C2                                                                      *)
(***************************************************************************)
\* the marker is absent, or the 9-character substring starting at its first
\* occurrence differs from the studentId
ShouldFlagId(r) ==
    \/ ~Contains(r[4], Marker)
    \/ UpTo(r[4], FirstPos(r[4], Marker), 9) # r[1]

RECURSIVE ExpectedIds(_, _)
ExpectedIds(rows, n) ==
    IF n = 0 THEN <<>>
    ELSE ExpectedIds(rows, n - 1)
         \o (IF ShouldFlagId(rows[n]) THEN <<<<rows[n][1], rows[n][2], rows[n][3]>>>> ELSE <<>>)

\* C2: after i records, missing_students holds (studentId, firstName, lastName)
\* once for each of them whose marker is absent or whose 9-character substring
\* at the marker differs from its studentId, and nothing else.
C2_FlaggedIffAbsentOrDifferent ==
    (action = 1 /\ pc \in {"find_student_ids", "log", "done"})
        => missing_students = ExpectedIds(Records, i)

C2_Witness ==
    /\ action = 1
    /\ pc = "done"
    /\ Len(Records) = 2
    /\ ~Contains(Records[1][4], Marker)
    /\ Contains(Records[2][4], Marker)
    /\ Records[1][1] # Records[2][1]
    /\ Len(missing_students) = 2

(***************************************************************************)
(* C8                                                                      *)
(***************************************************************************)
\* fewer than 9 characters from the marker's first occurrence to the field's end
ShortToken(field) ==
    /\ Contains(field, Marker)
    /\ Len(field) - FirstPos(field, Marker) + 1 < 9

\* C8 as stated: a record whose field ends fewer than 9 characters after the
\* marker is flagged, and the iteration completes, whatever its studentId.
C8_ShortTokenIsFlagged ==
    [][(InIdLoop /\ ShortToken(Current[4]))
          => /\ i' = i + 1
             /\ Appended(missing_students, missing_students',
                         <<Current[1], Current[2], Current[3]>>)]_vars

\* C8 amended: such a record is flagged unless the characters from the marker to
\* the field's end are exactly its studentId (a studentId shorter than 9
\* characters); the iteration completes either way.
C8_ShortTokenIsFlaggedUnlessEqual ==
    [][(InIdLoop /\ ShortToken(Current[4]))
          => /\ i' = i + 1
             /\ IF UpTo(Current[4], FirstPos(Current[4], Marker), Len(Current[4])) = Current[1]
                THEN missing_students' = missing_students
                ELSE Appended(missing_students, missing_students',
                              <<Current[1], Current[2], Current[3]>>)]_vars

C8_Witness ==
    /\ pc = "find_student_ids"
    /\ i = 2
    /\ ShortToken(Records[1][4])
    /\ ShortToken(Records[2][4])
    /\ Len(Records[1][1]) = 9
    /\ Records[2][4] = Records[2][1]
    /\ Len(missing_students) = 1

(***************************************************************************)
(* C9                                                                      *)
(***************************************************************************)
\* every element of list a is an element of list b
ListWithin(a, b) == \A k \in 1..Len(a) : \E m \in 1..Len(b) : b[m] = a[k]

\* C9: at the end of a run, if the Field Validator produced a warning then
\* load_data returned a true flag with a list containing the warnings and the
\* driver handed that list to the warning-log sink with a true flag; if it
\* produced none, the flag handed over is false.
C9_WarningsReachSink ==
    pc = "done" =>
        IF validated[1]
        THEN /\ student_data[2] = TRUE
             /\ ListWithin(Tail(validated[2]), student_data[3])
             /\ warning_log[2] = TRUE
             /\ ListWithin(Tail(validated[2]), warning_log[1])
        ELSE warning_log[2] = FALSE

(***************************************************************************)
(* Vocabulary of the tutor properties                                      *)
(***************************************************************************)
\* positions of the roster whose name occurs in the field
Matches(field) == {k \in 1..Len(tutors) : Contains(field, tutors[k]) \/ tutors[k] = <<>>}

\* the earliest-listed roster name that occurs in the field
FirstMatched(field) == tutors[CHOOSE k \in Matches(field) : \A m \in Matches(field) : k <= m]

\* rows of the pairing table with this studentId
PairingsOf(id) == {k \in 1..Len(st_data) : st_data[k][1] = id}

\* tutorName of the first pairing row with this studentId
PairedTutor(id) == st_data[CHOOSE k \in PairingsOf(id) : \A m \in PairingsOf(id) : k <= m][5]

(***************************************************************************)
(* C4                                                                      *)
(***************************************************************************)
\* the roster is [A, B] and the field contains both names
BothListed(field) ==
    /\ Len(tutors) = 2
    /\ tutors[1] # tutors[2]
    /\ Contains(field, tutors[1])
    /\ Contains(field, tutors[2])

\* C4: with roster [A, B] and a dataField containing both names, the scan stops
\* at A, and a record that has a pairing row is flagged iff the pairing's
\* tutorName differs from A, whatever its relation to B.
C4_EarliestListedNameDecides ==
    [][(TutorIteration /\ BothListed(Current[4]))
          => /\ j' = 0
             /\ tutor_found'
             /\ PairingsOf(Current[1]) # {}
                   => ((missing_tutors' # missing_tutors) <=> (PairedTutor(Current[1]) # tutors[1]))
             /\ Len(missing_tutors') <= Len(missing_tutors) + 1]_vars

C4_Witness ==
    /\ pc = "find_tutors"
    /\ i = 2
    /\ BothListed(Records[1][4])
    /\ BothListed(Records[2][4])
    /\ PairingsOf(Records[1][1]) # {}
    /\ PairingsOf(Records[2][1]) # {}
    /\ PairedTutor(Records[1][1]) = tutors[2]
    /\ PairedTutor(Records[2][1]) = tutors[1]
    /\ Len(missing_tutors) = 1
    /\ j = 0

(***************************************************************************)
(* C5                                                                      *)
(***************************************************************************)
\* a roster name occurs in the record's field and the record has a pairing row
MatchedAndPaired(r) == Matches(r[4]) # {} /\ PairingsOf(r[1]) # {}

\* C5: when the first roster-matched name differs from the tutorName of the
\* first pairing row of the student, exactly one discrepancy (studentId,
\* firstName, lastName, tutor) is emitted, its tutor being the pairing's
\* tutorName; when the two names are equal nothing is emitted.
C5_MismatchCarriesPairedTutor ==
    [][(TutorIteration /\ MatchedAndPaired(Current))
          => IF FirstMatched(Current[4]) # PairedTutor(Current[1])
             THEN Appended(missing_tutors, missing_tutors',
                           <<Current[1], Current[2], Current[3], PairedTutor(Current[1])>>)
             ELSE missing_tutors' = missing_tutors]_vars

C5_Witness ==
    /\ pc = "find_tutors"
    /\ i = 2
    /\ MatchedAndPaired(Records[1])
    /\ MatchedAndPaired(Records[2])
    /\ FirstMatched(Records[1][4]) # PairedTutor(Records[1][1])
    /\ FirstMatched(Records[2][4]) = PairedTutor(Records[2][1])
    /\ Cardinality(PairingsOf(Records[1][1])) = 2
    /\ missing_tutors = <<<<Records[1][1], Records[1][2], Records[1][3],
                            PairedTutor(Records[1][1])>>>>
    /\ missing_tutors[1][4] # FirstMatched(Records[1][4])

(***************************************************************************)
(* C7                                                                      *)
(***************************************************************************)
\* C7: a record whose dataField contains no roster name (an empty roster
\* included) yields exactly one discrepancy, whose tutor is the tutorName of
\* the first pairing row of the student, or the empty string without one.
C7_UnmatchedIsFlaggedOnce ==
    [][(TutorIteration /\ Matches(Current[4]) = {})
          => Appended(missing_tutors, missing_tutors',
                      <<Current[1], Current[2], Current[3],
                        IF PairingsOf(Current[1]) # {} THEN PairedTutor(Current[1]) ELSE <<>>>>)]_vars

C7_Witness ==
    /\ pc = "find_tutors"
    /\ i = 2
    /\ Len(tutors) > 0
    /\ Matches(Records[1][4]) = {}
    /\ Matches(Records[2][4]) = {}
    /\ Cardinality(PairingsOf(Records[1][1])) = 2
    /\ PairingsOf(Records[2][1]) = {}
    /\ Len(missing_tutors) = 2
    /\ missing_tutors[1][4] = PairedTutor(Records[1][1])
    /\ missing_tutors[2][4] = <<>>

(***************************************************************************)
(* C10                                                                     *)
(***************************************************************************)
\* C10: for a student without a pairing row, the record is flagged exactly when
\* no roster name occurs in its dataField, and then with an empty tutor field;
\* with a roster name in the field nothing is emitted.
C10_UnpairedFlaggedOnlyIfUnmatched ==
    [][(TutorIteration /\ PairingsOf(Current[1]) = {})
          => IF Matches(Current[4]) = {}
             THEN Appended(missing_tutors, missing_tutors',
                           <<Current[1], Current[2], Current[3], <<>>>>)
             ELSE missing_tutors' = missing_tutors]_vars

C10_Witness ==
    /\ pc = "find_tutors"
    /\ i = 2
    /\ st_data # <<>>
    /\ PairingsOf(Records[1][1]) = {}
    /\ Records[2][1] = Records[1][1]
    /\ Matches(Records[1][4]) # {}
    /\ Matches(Records[2][4]) = {}
    /\ missing_tutors = <<<<Records[2][1], Records[2][2], Records[2][3], <<>>>>>>

(***************************************************************************)
(* C3                                                                      *)
(***************************************************************************)
\* the error list check_fields_data handed to the error-log sink
ErrorList == IF error_log = <<>> THEN <<>> ELSE error_log[1][1]

\* records whose hard-required dataField is empty
EmptyData(rows) == {k \in 1..Len(rows) : rows[k][4] = <<>>}

\* one entry of the error list for each record with an empty dataField
OneErrorEach ==
    pc # "load_fields" =>
        /\ Len(error_log) <= 1
        /\ Len(ErrorList) = Cardinality(EmptyData(Records))
        /\ \A id \in {Records[k][1] : k \in EmptyData(Records)} :
              Cardinality({e \in 1..Len(ErrorList) : ErrorList[e][2] = id})
                 = Cardinality({k \in EmptyData(Records) : Records[k][1] = id})

LoopIteration == IdIteration \/ TutorIteration

\* C3 as stated: a record with an empty dataField contributes one entry to the
\* error list and none to the discrepancy output of the check that follows.
C3_EmptyDataOnlyInErrorList ==
    [][/\ OneErrorEach'
       /\ (LoopIteration /\ Current[4] = <<>>)
             => /\ missing_students' = missing_students
                /\ missing_tutors' = missing_tutors]_vars

\* C3 amended: a record with an empty dataField contributes one entry to the
\* error list and, staying in the matching, exactly one entry to the discrepancy
\* output of the check that follows: (studentId, firstName, lastName) from
\* find_student_ids, and from find_tutors the same with the tutor field of C7.
C3_EmptyDataInErrorListAndFlagged ==
    [][/\ OneErrorEach'
       /\ (IdIteration /\ Current[4] = <<>>)
             => Appended(missing_students, missing_students',
                         <<Current[1], Current[2], Current[3]>>)
       /\ (TutorIteration /\ Current[4] = <<>>)
             => Appended(missing_tutors, missing_tutors',
                         <<Current[1], Current[2], Current[3],
                           IF PairingsOf(Current[1]) # {} THEN PairedTutor(Current[1])
                           ELSE <<>>>>)]_vars

C3_Witness ==
    /\ pc \in {"find_student_ids", "find_tutors"}
    /\ i = 2
    /\ Records[1][4] = <<>>
    /\ Records[2][4] = <<>>
    /\ Len(ErrorList) = 2
    /\ action = 2
    /\ Len(tutors) = 2
    /\ Len(missing_tutors) = 2

(***************************************************************************)
(* C6                                                                      *)
(***************************************************************************)
\* the first three fields of the records at the positions in S, in input order
RECURSIVE Picked(_, _, _)
Picked(rows, S, n) ==
    IF n = 0 THEN <<>>
    ELSE Picked(rows, S, n - 1)
         \o (IF n \in S THEN <<<<rows[n][1], rows[n][2], rows[n][3]>>>> ELSE <<>>)

\* out, cut to its first three fields, is a subsequence of the first n records
SubsequenceOf(out, rows, n) ==
    \E S \in SUBSET (1..n) :
        [k \in 1..Len(out) |-> <<out[k][1], out[k][2], out[k][3]>>] = Picked(rows, S, n)

\* C6: after every loop iteration the output of find_student_ids and of
\* find_tutors is a subsequence of the records processed so far, so flagged
\* records keep their input order and give at most one tuple each.
C6_OutputKeepsInputOrder ==
    pc \in {"find_student_ids", "find_tutors", "log", "done"}
        => /\ SubsequenceOf(missing_students, Records, i)
           /\ SubsequenceOf(missing_tutors, Records, i)

C6_Witness ==
    /\ pc \in {"find_student_ids", "find_tutors"}
    /\ i = 2
    /\ Records[1][1] # Records[2][1]
    /\ Len(missing_students) + Len(missing_tutors) = 2

====
